---- MODULE Spec2Model ----
(***************************************************************************)
(* A model of fawltydeps/gitignore_parser.py: the rule compiler            *)
(* (rule_from_pattern, fnmatch_pathname_to_regex), rule matching           *)
(* (Rule.match, _normalize_path) and the rule-set predicate returned by    *)
(* parse_gitignore.                                                        *)
(*                                                                         *)
(* Text is modelled as a sequence of one-character strings, so "a/b" is    *)
(* <<"a", "/", "b">>.  The regular expression a rule carries is the text   *)
(* the code builds; it is parsed and run by the operators of the section   *)
(* "re.search", which follow the syntax and semantics of Python's re for   *)
(* the constructs that text can contain.                                   *)
(***************************************************************************)
EXTENDS Integers, Sequences, FiniteSets, TLC

BS == "\\"

(***************************************************************************)
(* Generic text helpers (Python str operations used by the code).          *)
(***************************************************************************)
\* s[a:b] with 0-based, end-exclusive Python indices, 0 <= a, b <= len(s)
Slice(s, a, b) == IF b <= a THEN << >> ELSE SubSeq(s, a + 1, b)

\* s[a:]
From(s, a) == Slice(s, a, Len(s))

RECURSIVE Concat(_)
\* "".join(parts)
Concat(parts) ==
    IF parts = << >> THEN << >> ELSE Head(parts) \o Concat(Tail(parts))

RECURSIVE Rstrip(_)
\* str.rstrip(): drop trailing whitespace (the space is the only whitespace
\* character of the modelled alphabet)
Rstrip(s) ==
    IF s # << >> /\ s[Len(s)] = " " THEN Rstrip(Slice(s, 0, Len(s) - 1)) ELSE s

RECURSIVE Lstrip(_)
Lstrip(s) == IF s # << >> /\ s[1] = " " THEN Lstrip(Tail(s)) ELSE s

\* str.strip()
Strip(s) == Lstrip(Rstrip(s))

RECURSIVE StarRun(_, _)
\* number of consecutive "*" in s from 0-based index i on
StarRun(s, i) ==
    IF i < Len(s) /\ s[i + 1] = "*" THEN 1 + StarRun(s, i + 1) ELSE 0

RECURSIVE CollapseAfter(_, _)
\* re.sub(r"([^/])\*{2,}", r"\1*", pattern), scanning from index i
CollapseAfter(s, i) ==
    IF i >= Len(s) THEN << >>
    ELSE LET run == StarRun(s, i + 1) IN
         IF s[i + 1] # "/" /\ run >= 2
         THEN <<s[i + 1], "*">> \o CollapseAfter(s, i + 1 + run)
         ELSE <<s[i + 1]>> \o CollapseAfter(s, i + 1)

RECURSIVE CollapseBefore(_, _)
\* re.sub(r"\*{2,}([^/])", r"*\1", pattern), scanning from index i.  The
\* greedy run backtracks by one star when it is followed by "/" or by the
\* end of the text, so that the last star of a run of three or more is the
\* captured character.
CollapseBefore(s, i) ==
    IF i >= Len(s) THEN << >>
    ELSE LET run == StarRun(s, i) IN
         IF run >= 2 /\ i + run < Len(s) /\ s[i + run + 1] # "/"
         THEN <<"*", s[i + run + 1]>> \o CollapseBefore(s, i + run + 1)
         ELSE IF run >= 3
         THEN <<"*", "*">> \o CollapseBefore(s, i + run)
         ELSE <<s[i + 1]>> \o CollapseBefore(s, i + 1)

RECURSIVE Replace(_, _, _)
\* str.replace(old, new) for a one-character old
Replace(s, old, new) ==
    IF s = << >> THEN << >>
    ELSE (IF Head(s) = old THEN new ELSE <<Head(s)>>) \o Replace(Tail(s), old, new)

\* re.escape(c) for one character: Python escapes exactly these
\* (of the characters the model uses)
ReSpecial == {"(", ")", "[", "]", "{", "}", "?", "*", "+", "-", "|", "^", "$",
              BS, ".", "&", "~", "#", " "}

ReEscape(c) == IF c \in ReSpecial THEN <<BS, c>> ELSE <<c>>

(***************************************************************************)
(* fnmatch_pathname_to_regex                                               *)
(***************************************************************************)
\* seps_group and nonsep for os.sep = "/" and os.altsep = None
seps_group == <<"[", "/", "]">>

nonsep == <<"[", "^", "/", "]">>

RECURSIVE ClassEnd(_, _)
\* the scan "while j < n and pattern[j] != ']': j += 1"
ClassEnd(pattern, j) ==
    IF j < Len(pattern) /\ pattern[j + 1] # "]" THEN ClassEnd(pattern, j + 1) ELSE j

\* the index j the "[" branch computes for a class that starts at index i
\* (the character after the "[")
ClassScan(pattern, i) ==
    LET n  == Len(pattern)
        j1 == IF i < n /\ pattern[i + 1] = "!" THEN i + 1 ELSE i
        j2 == IF j1 < n /\ pattern[j1 + 1] = "]" THEN j1 + 1 ELSE j1
    IN  ClassEnd(pattern, j2)

\* the text between the brackets after both replace() calls
ClassStuff(pattern, i, j) ==
    Replace(Replace(Slice(pattern, i, j), BS, <<BS, BS>>), "/", << >>)

\* ClassRegex with a leading "^" left as it is, so that it negates
ClassRegexCaretNegates(stuff) ==
    <<"[">> \o (IF stuff[1] = "!" THEN <<"^">> \o Tail(stuff) ELSE stuff) \o <<"]">>

\* the "[stuff]" the code appends; stuff is not empty
ClassRegex(stuff) ==
    LET s == IF stuff[1] = "!" THEN <<"^">> \o Tail(stuff)
             ELSE IF stuff[1] = "^" THEN <<BS>> \o stuff
             ELSE stuff
    IN  <<"[">> \o s \o <<"]">>

\* res.append(piece) in front of what the rest of the loop appends; r is
\* the outcome of the rest of the loop
Appended(piece, r) ==
    IF r.ok THEN [ok |-> TRUE, res |-> piece \o r.res] ELSE r

RECURSIVE TranslateFrom(_, _)

\* the "[" branch for a class whose scan ended at index j
TranslateClass(pattern, i, j) ==
    IF j >= Len(pattern) THEN Appended(<<BS, "[">>, TranslateFrom(pattern, i))
    ELSE IF ClassStuff(pattern, i, j) = << >> THEN [ok |-> FALSE]
    ELSE Appended(ClassRegex(ClassStuff(pattern, i, j)), TranslateFrom(pattern, j + 1))

\* TranslateStar with ".*" for a "**/" as for any other "**"
TranslateStarGreedy(pattern, i) ==
    IF i < Len(pattern) /\ pattern[i + 1] = "*"
    THEN Appended(<<".", "*">>, TranslateFrom(pattern, i + 1))
    ELSE Appended(nonsep \o <<"*">>, TranslateFrom(pattern, i))

\* the "*" branch; i is the index after the "*".  Reading pattern[i] at the
\* end of the pattern raises IndexError, which the code catches.
TranslateStar(pattern, i) ==
    IF i < Len(pattern) /\ pattern[i + 1] = "*" THEN
        IF i + 1 < Len(pattern) /\ pattern[i + 2] = "/"
        THEN Appended(<<"(", ".", "*">> \o seps_group \o <<")", "?">>,
                      TranslateFrom(pattern, i + 2))
        ELSE Appended(<<".", "*">>, TranslateFrom(pattern, i + 1))
    ELSE Appended(nonsep \o <<"*">>, TranslateFrom(pattern, i))

\* the loop "while i < n" from index i on: [ok |-> TRUE, res |-> text], or
\* [ok |-> FALSE] when stuff[0] raises IndexError on an empty stuff
TranslateFrom(pattern, i) ==
    IF i >= Len(pattern) THEN [ok |-> TRUE, res |-> << >>]
    ELSE CASE pattern[i + 1] = "*" -> TranslateStar(pattern, i + 1)
           [] pattern[i + 1] = "?" -> Appended(nonsep, TranslateFrom(pattern, i + 1))
           [] pattern[i + 1] = "/" -> Appended(seps_group, TranslateFrom(pattern, i + 1))
           [] pattern[i + 1] = "[" ->
                  TranslateClass(pattern, i + 1, ClassScan(pattern, i + 1))
           [] OTHER -> Appended(ReEscape(pattern[i + 1]), TranslateFrom(pattern, i + 1))

\* RegexPrefix of a rule that is always anchored
RegexPrefixAnchored(anchored) == <<"^">>

\* RegexPrefix of a rule that is never anchored
RegexPrefixFloating(anchored) == <<"(", "^", "|">> \o seps_group \o <<")">>

\* what is inserted in front of the translation
RegexPrefix(anchored) ==
    IF anchored THEN <<"^">> ELSE <<"(", "^", "|">> \o seps_group \o <<")">>

\* RegexSuffix without the case of a directory-only negation
RegexSuffixNoNegation(directory_only, negation) ==
    IF ~directory_only THEN <<"$">> ELSE <<"(", "$", "|", BS, "/", ")">>

\* what is appended to the translation
RegexSuffix(directory_only, negation) ==
    IF ~directory_only THEN <<"$">>
    ELSE IF negation THEN <<"/", "$">>
    ELSE <<"(", "$", "|", BS, "/", ")">>

\* the insert in front and the append at the end (lines 227-237)
WithAffixes(r, prefix, suffix) ==
    IF r.ok THEN [ok |-> TRUE, res |-> prefix \o r.res \o suffix] ELSE r

\* [ok |-> TRUE, res |-> the regex text], or [ok |-> FALSE] (IndexError)
fnmatch_pathname_to_regex(pattern, directory_only, negation, anchored) ==
    WithAffixes(TranslateFrom(pattern, 0), RegexPrefix(anchored),
                RegexSuffix(directory_only, negation))

(***************************************************************************)
(* rule_from_pattern                                                       *)
(***************************************************************************)
None == [kind |-> "None"]

Raise(e) == [kind |-> "raise", exc |-> e]

RECURSIVE StripTrailingSpaces(_, _, _)
\* the loop "while i > 1 and pattern[i] == ' '", entered with index i and
\* the flag striptrailingspaces; the value is the pattern it leaves
StripTrailingSpaces(pattern, i, striptrailingspaces) ==
    IF i > 1 /\ pattern[i + 1] = " " THEN
        IF pattern[i] = BS
        THEN StripTrailingSpaces(Slice(pattern, 0, i - 1) \o From(pattern, i), i - 2, FALSE)
        ELSE StripTrailingSpaces(
                 IF striptrailingspaces THEN Slice(pattern, 0, i) ELSE pattern,
                 i - 1, striptrailingspaces)
    ELSE pattern

\* the pattern after a leading "!" is consumed (lines 74-78); the line is
\* not empty
AfterBang(line) == IF line[1] = "!" THEN Tail(line) ELSE line

\* the two re.sub calls (lines 81-82)
Collapsed(line) == CollapseBefore(CollapseAfter(AfterBang(line), 0), 0)

\* "/" in pattern[:-1]
HasInnerSlash(pattern) ==
    \E k \in 1..(Len(pattern) - 1) : pattern[k] = "/"

\* lines 117-128: translate the pattern and build the Rule
MakeRule(line, pattern, negation, directory_only, anchored, base_path, rx) ==
    IF ~rx.ok THEN Raise("IndexError")
    ELSE [kind |-> "Rule", pattern |-> line, regex |-> rx.res, negation |-> negation,
          directory_only |-> directory_only, anchored |-> anchored,
          base_path |-> base_path]

\* lines 103-104: drop the backslash of a leading "\#" or "\!"; the pattern
\* has two characters if it starts with a backslash
Unescaped(pattern) ==
    IF pattern[1] = BS /\ pattern[2] \in {"#", "!"} THEN Tail(pattern) ELSE pattern

\* lines 106-116
StripSpaces(pattern) == StripTrailingSpaces(pattern, Len(pattern) - 1, TRUE)

\* lines 103-119: unescape, strip trailing spaces, translate
Unescape(line, pattern, negation, directory_only, anchored, base_path) ==
    IF pattern = << >> THEN Raise("IndexError")                 \* pattern[0]
    ELSE IF pattern[1] = BS /\ Len(pattern) < 2 THEN Raise("IndexError")  \* pattern[1]
    ELSE MakeRule(line, pattern, negation, directory_only, anchored, base_path,
                  fnmatch_pathname_to_regex(StripSpaces(Unescaped(pattern)),
                                            directory_only, negation, anchored))

\* lines 99-100: drop a trailing "/"
StripLast(line, pattern, negation, directory_only, anchored, base_path) ==
    IF pattern = << >> THEN Raise("IndexError")                 \* pattern[-1]
    ELSE Unescape(line,
                  IF pattern[Len(pattern)] = "/"
                  THEN Slice(pattern, 0, Len(pattern) - 1) ELSE pattern,
                  negation, directory_only, anchored, base_path)

\* lines 97-98: drop a "/" that now leads
StripSecond(line, pattern, negation, directory_only, anchored, base_path) ==
    IF pattern = << >> THEN Raise("IndexError")                 \* pattern[0]
    ELSE StripLast(line, IF pattern[1] = "/" THEN Tail(pattern) ELSE pattern,
                   negation, directory_only, anchored, base_path)

\* lines 94-96: drop a leading "**", which also clears anchored
StripStars(line, pattern, negation, directory_only, anchored, base_path) ==
    IF pattern = << >> THEN Raise("IndexError")                 \* pattern[0]
    ELSE IF pattern[1] = "*" /\ Len(pattern) >= 2 /\ pattern[2] = "*"
    THEN StripSecond(line, From(pattern, 2), negation, directory_only, FALSE, base_path)
    ELSE StripSecond(line, pattern, negation, directory_only, anchored, base_path)

\* lines 85-93: the special case "/", the flags, and the leading "/"
Flags(line, pattern, negation, base_path) ==
    IF Rstrip(pattern) = <<"/">> THEN None
    ELSE IF pattern = << >> THEN Raise("IndexError")            \* pattern[-1]
    ELSE StripStars(line, IF pattern[1] = "/" THEN Tail(pattern) ELSE pattern,
                    negation, pattern[Len(pattern)] = "/", HasInnerSlash(pattern),
                    base_path)

\* the working directory of the process, as a Path
WorkDir == [root |-> 1, parts |-> <<<<"r">>>>]

\* Path(base_path).resolve() of a path without "..", "." or symbolic links:
\* a relative path is taken from the working directory
Resolve(base_path) ==
    IF base_path.root # 0 THEN base_path
    ELSE [root |-> WorkDir.root, parts |-> WorkDir.parts \o base_path.parts]

\* no base_path is rejected
BasePathAccepted(base_path) == FALSE

\* line 65: base_path (a Path, which is never falsy) is not its resolved self
BasePathRejected(base_path) == base_path # Resolve(base_path)

\* rule_from_pattern(pattern, base_path) for a Path base_path: a Rule, None,
\* or the exception raised
rule_from_pattern(line, base_path) ==
    IF BasePathRejected(base_path) THEN Raise("ValueError")
    ELSE IF Strip(line) = << >> \/ line[1] = "#" THEN None
    ELSE Flags(line, Collapsed(line), line[1] = "!", base_path)

(***************************************************************************)
(* re.search: Python's re on the regex text a Rule carries.  The text is   *)
(* parsed into a tree and the tree is run on the subject.  Of the syntax   *)
(* of re the parser knows what the compiler above can emit: literals,      *)
(* backslash escapes of punctuation, ".", "^", "$", character sets with    *)
(* an optional leading "^", groups, "|", and the greedy quantifiers "*"    *)
(* and "?".  A tree node is a record with a field t.                       *)
(***************************************************************************)
ParseError == [ok |-> FALSE]

Parsed(node, next) == [ok |-> TRUE, node |-> node, next |-> next]

RECURSIVE ParseSetItems(_, _, _, _)
\* the body of a character set from 1-based position i on; first is TRUE at
\* the first item, where "]" is a literal.  The text ending before the
\* closing "]" is the error "unterminated character set".
ParseSetItems(re, i, first, acc) ==
    IF i > Len(re) THEN ParseError
    ELSE IF re[i] = "]" /\ ~first THEN [ok |-> TRUE, cs |-> acc, next |-> i + 1]
    ELSE IF re[i] = BS
         THEN IF i + 1 > Len(re) THEN ParseError
              ELSE ParseSetItems(re, i + 2, FALSE, acc \cup {re[i + 1]})
    ELSE ParseSetItems(re, i + 1, FALSE, acc \cup {re[i]})

SetNode(neg, items) ==
    IF items.ok THEN Parsed([t |-> "in", neg |-> neg, cs |-> items.cs], items.next)
    ELSE ParseError

\* a character set; i is the position after the "["
ParseSet(re, i) ==
    IF i <= Len(re) /\ re[i] = "^"
    THEN SetNode(TRUE, ParseSetItems(re, i + 1, TRUE, {}))
    ELSE SetNode(FALSE, ParseSetItems(re, i, TRUE, {}))

RECURSIVE ParseAlt(_, _, _)
RECURSIVE ParseSeq(_, _, _)

\* the ")" that closes a group whose body parsed as r
CloseGroup(re, r) ==
    IF ~r.ok THEN ParseError
    ELSE IF r.next > Len(re) \/ re[r.next] # ")" THEN ParseError
    ELSE Parsed(r.node, r.next + 1)

\* one atom at position i <= Len(re)
ParseAtom(re, i) ==
    CASE re[i] = "(" -> CloseGroup(re, ParseAlt(re, i + 1, << >>))
      [] re[i] = "[" -> ParseSet(re, i + 1)
      [] re[i] = BS  -> IF i + 1 > Len(re) THEN ParseError
                        ELSE Parsed([t |-> "lit", c |-> re[i + 1]], i + 2)
      [] re[i] = "." -> Parsed([t |-> "any"], i + 1)
      [] re[i] = "^" -> Parsed([t |-> "bol"], i + 1)
      [] re[i] = "$" -> Parsed([t |-> "eol"], i + 1)
      [] re[i] \in {"*", "?"} -> ParseError          \* nothing to repeat
      [] OTHER -> Parsed([t |-> "lit", c |-> re[i]], i + 1)

\* the atom a with the quantifier that follows it, then the rest of the
\* sequence
Quantified(re, a, acc) ==
    IF ~a.ok THEN ParseError
    ELSE IF a.next <= Len(re) /\ re[a.next] \in {"*", "?"}
    THEN IF a.node.t \in {"bol", "eol"} THEN ParseError        \* nothing to repeat
         ELSE IF a.next + 1 <= Len(re) /\ re[a.next + 1] = "*"
         THEN ParseError                                       \* multiple repeat
         ELSE ParseSeq(re, a.next + 1,
                       Append(acc, [t |-> IF re[a.next] = "*" THEN "star" ELSE "opt",
                                    a |-> a.node]))
    ELSE ParseSeq(re, a.next, Append(acc, a.node))

\* a sequence of quantified atoms up to "|", ")" or the end of the text
ParseSeq(re, i, acc) ==
    IF i > Len(re) \/ re[i] \in {"|", ")"}
    THEN Parsed([t |-> "seq", items |-> acc], i)
    ELSE Quantified(re, ParseAtom(re, i), acc)

\* the branch s, then the other branches after a "|"
Branches(re, s, acc) ==
    IF ~s.ok THEN ParseError
    ELSE IF s.next <= Len(re) /\ re[s.next] = "|"
    THEN ParseAlt(re, s.next + 1, Append(acc, s.node))
    ELSE Parsed([t |-> "alt", bs |-> Append(acc, s.node)], s.next)

\* the branches of an alternation up to ")" or the end of the text
ParseAlt(re, i, acc) == Branches(re, ParseSeq(re, i, << >>), acc)

\* a ")" left over is the error "unbalanced parenthesis"
WholeText(re, r) ==
    IF r.ok /\ r.next > Len(re) THEN [ok |-> TRUE, node |-> r.node] ELSE ParseError

\* re.compile(text): the tree, or an error (re.error)
ReCompile(re) == WholeText(re, ParseAlt(re, 1, << >>))

RECURSIVE Ends(_, _, _)
RECURSIVE SeqEnds(_, _, _)
RECURSIVE StarEnds(_, _, _)

\* the offsets (0..Len(s)) at which a match of node that starts at offset p
\* of s can end
Ends(node, s, p) ==
    CASE node.t = "lit" -> IF p < Len(s) /\ s[p + 1] = node.c THEN {p + 1} ELSE {}
      [] node.t = "any" -> IF p < Len(s) THEN {p + 1} ELSE {}
      [] node.t = "in"  -> IF p < Len(s) /\ ((s[p + 1] \in node.cs) # node.neg)
                           THEN {p + 1} ELSE {}
      [] node.t = "bol" -> IF p = 0 THEN {p} ELSE {}
      [] node.t = "eol" -> IF p = Len(s) THEN {p} ELSE {}
      [] node.t = "seq" -> SeqEnds(node.items, s, {p})
      [] node.t = "alt" -> UNION {Ends(node.bs[k], s, p) : k \in 1..Len(node.bs)}
      [] node.t = "opt" -> {p} \cup Ends(node.a, s, p)
      [] node.t = "star" -> StarEnds(node.a, s, {p})

SeqEnds(items, s, ps) ==
    IF items = << >> \/ ps = {} THEN ps
    ELSE SeqEnds(Tail(items), s, UNION {Ends(Head(items), s, p) : p \in ps})

\* ps grown by more, until nothing is added
Grown(a, s, ps, more) ==
    IF more \subseteq ps THEN ps ELSE StarEnds(a, s, ps \cup more)

StarEnds(a, s, ps) == Grown(a, s, ps, UNION {Ends(a, s, p) : p \in ps})

\* the offsets of s at which a match of the compiled regex can start
MatchStarts(node, s) == {p \in 0..Len(s) : Ends(node, s, p) # {}}

\* the search with the compiled regex c
SearchCompiled(c, s) ==
    IF ~c.ok THEN "re.error"
    ELSE IF MatchStarts(c.node, s) # {} THEN "True" ELSE "False"

\* re.search(regex, s): "True" for a match, "False" for None, or "re.error"
\* when the text does not compile
ReSearch(regex, s) == SearchCompiled(ReCompile(regex), s)

(***************************************************************************)
(* Paths: os.path.abspath, pathlib.Path, _normalize_path                   *)
(***************************************************************************)
RECURSIVE SplitFrom(_, _, _, _)
\* s.split(sep): the list of the pieces of s between separators
SplitFrom(s, sep, i, cur) ==
    IF i > Len(s) THEN <<cur>>
    ELSE IF s[i] = sep THEN <<cur>> \o SplitFrom(s, sep, i + 1, << >>)
    ELSE SplitFrom(s, sep, i + 1, Append(cur, s[i]))

Split(s, sep) == SplitFrom(s, sep, 1, << >>)

RECURSIVE Join(_, _)
\* sep.join(parts)
Join(parts, sep) ==
    IF parts = << >> THEN << >>
    ELSE IF Len(parts) = 1 THEN parts[1]
    ELSE parts[1] \o <<sep>> \o Join(Tail(parts), sep)

DotDot == <<".", ".">>

RECURSIVE NormComps(_, _, _)
\* the loop of posixpath.normpath over the components
NormComps(comps, initial_slashes, new_comps) ==
    IF comps = << >> THEN new_comps
    ELSE IF Head(comps) \in {<< >>, <<".">>}
    THEN NormComps(Tail(comps), initial_slashes, new_comps)
    ELSE IF Head(comps) # DotDot
            \/ (initial_slashes = 0 /\ new_comps = << >>)
            \/ (new_comps # << >> /\ new_comps[Len(new_comps)] = DotDot)
    THEN NormComps(Tail(comps), initial_slashes, Append(new_comps, Head(comps)))
    ELSE IF new_comps # << >>
    THEN NormComps(Tail(comps), initial_slashes, Slice(new_comps, 0, Len(new_comps) - 1))
    ELSE NormComps(Tail(comps), initial_slashes, new_comps)

\* the number of leading slashes posixpath.normpath keeps: 0, 1, or 2 for
\* exactly two
InitialSlashes(path) ==
    IF path = << >> \/ path[1] # "/" THEN 0
    ELSE IF Len(path) >= 2 /\ path[2] = "/" /\ ~(Len(path) >= 3 /\ path[3] = "/") THEN 2
    ELSE 1

\* posixpath.normpath(path) for an absolute path, as the Path made of it:
\* [root |-> leading slashes, parts |-> the components]
NormPath(path) ==
    [root |-> InitialSlashes(path),
     parts |-> NormComps(Split(path, "/"), InitialSlashes(path), << >>)]

\* Path(os.path.abspath(path)); cwd is the text of the working directory
_normalize_path(path, cwd) ==
    IF path # << >> /\ path[1] = "/" THEN NormPath(path)
    ELSE NormPath(cwd \o <<"/">> \o path)            \* os.path.join(cwd, path)

\* the text of a PurePosixPath with the given leading slashes and body
PathText(init, body) ==
    IF init = 0 THEN (IF body = << >> THEN <<".">> ELSE body)
    ELSE [k \in 1..init |-> "/"] \o body

\* str(PurePosixPath(text)): the text a Path-typed argument carries
PathStr(text) ==
    PathText(InitialSlashes(text),
             Join(SelectSeq(Split(text, "/"), LAMBDA c : c \notin {<< >>, <<".">>}), "/"))

\* os.fspath(abs_path) for a query [text, is_str, cwd]
Fspath(q) == IF q.is_str THEN q.text ELSE PathStr(q.text)

\* path.relative_to(base_path): [ok |-> TRUE, parts |-> ...] or ValueError
RelativeTo(path, base_path) ==
    IF path.root = base_path.root
       /\ Len(path.parts) >= Len(base_path.parts)
       /\ Slice(path.parts, 0, Len(base_path.parts)) = base_path.parts
    THEN [ok |-> TRUE, parts |-> From(path.parts, Len(base_path.parts))]
    ELSE [ok |-> FALSE]

(***************************************************************************)
(* Rule.match and the predicate parse_gitignore returns.  A call either    *)
(* returns a boolean, Ret(b), or raises, Exc(e).                           *)
(***************************************************************************)
Ret(b) == [exc |-> "", val |-> b]

Exc(e) == [exc |-> e, val |-> FALSE]

Returned(o) == o.exc = ""

\* str(path) of the relative path with the given parts
RelText(parts) == IF parts = << >> THEN <<".">> ELSE Join(parts, "/")

\* KeepSlash of a match that never puts the trailing "/" back
KeepSlashNever(rule, q, rel_path) == rel_path

\* lines 156-159: the trailing "/" of the argument is put back for a negation
KeepSlash(rule, q, rel_path) ==
    IF rule.negation /\ q.is_str /\ q.text[Len(q.text)] = "/"
    THEN rel_path \o <<"/">> ELSE rel_path

\* lines 160-161
DropDotSlash(rel_path) ==
    IF Len(rel_path) >= 2 /\ rel_path[1] = "." /\ rel_path[2] = "/"
    THEN From(rel_path, 2) ELSE rel_path

\* the outcome of Rule.match from the outcome of re.search
Found(found) == IF found = "re.error" THEN Exc("re.error") ELSE Ret(found = "True")

\* lines 153-165, with the relative path rel
MatchRel(rule, q, rel) ==
    IF ~rel.ok THEN Exc("ValueError")
    ELSE IF rule.negation /\ q.is_str /\ q.text = << >> THEN Exc("IndexError")
    ELSE Found(ReSearch(rule.regex, DropDotSlash(KeepSlash(rule, q, RelText(rel.parts)))))

\* Rule.match(abs_path) for the query q (rule.base_path is set)
match(rule, q) ==
    MatchRel(rule, q, RelativeTo(_normalize_path(Fspath(q), q.cwd), rule.base_path))

(***************************************************************************)
(* parse_gitignore and the predicate it returns                            *)
(***************************************************************************)
\* Path(base_dir).resolve(): the directory the ignore file lies in
BasePath == [root |-> 1, parts |-> <<<<"r">>>>]

RECURSIVE ReadRules(_, _)

\* Collect with rules.insert(0, rule) for rules.append(rule)
CollectInFront(rule, rest, acc) ==
    IF rule.kind = "raise" THEN rule
    ELSE IF rule.kind = "None" THEN ReadRules(rest, acc)
    ELSE ReadRules(rest, <<rule>> \o acc)

\* lines 37-38: a rule is appended, None is skipped, an exception propagates
Collect(rule, rest, acc) ==
    IF rule.kind = "raise" THEN rule
    ELSE IF rule.kind = "None" THEN ReadRules(rest, acc)
    ELSE ReadRules(rest, Append(acc, rule))

\* the loop over the lines of the file: the rule list, or the exception of
\* the first line that raises
ReadRules(lines, acc) ==
    IF lines = << >> THEN [kind |-> "rules", rules |-> acc]
    ELSE Collect(rule_from_pattern(Head(lines), BasePath), Tail(lines), acc)

RECURSIVE AnyMatch(_, _)

\* one step of any(): m is the outcome of the match of the first rule
AnyStep(m, rest, q) ==
    IF ~Returned(m) THEN m
    ELSE IF m.val THEN Ret(TRUE)
    ELSE AnyMatch(rest, q)

\* any(r.match(file_path) for r in rules): in list order, stopping at the
\* first match; an exception of r.match propagates
AnyMatch(rs, q) ==
    IF rs = << >> THEN Ret(FALSE)
    ELSE AnyStep(match(Head(rs), q), Tail(rs), q)

RECURSIVE handle_negation(_, _)

\* one step of the loop: m is the outcome of the match of rule, the last of
\* the rules not yet visited
NegationStep(m, rule, rest, q) ==
    IF ~Returned(m) THEN m
    ELSE IF m.val THEN Ret(~rule.negation)
    ELSE handle_negation(rest, q)

\* for rule in reversed(rules): the first match decides
handle_negation(rs, q) ==
    IF rs = << >> THEN Ret(FALSE)
    ELSE NegationStep(match(rs[Len(rs)], q), rs[Len(rs)],
                      Slice(rs, 0, Len(rs) - 1), q)

HasNegation(rs) == \E k \in 1..Len(rs) : rs[k].negation

\* the callable parse_gitignore returns, applied to the query q
Predicate(rs, q) ==
    IF ~HasNegation(rs) THEN AnyMatch(rs, q) ELSE handle_negation(rs, q)

(***************************************************************************)
(* The inputs: ignore files and query paths                                *)
(***************************************************************************)
MaxPatLen == 3

MaxDirs == 3

MaxRules == 2

MaxLineDirs == 2

MaxFileLines == 3

\* all texts of 1..n characters over chars
Texts(chars, n) == UNION {[1..k -> chars] : k \in 1..n}

\* all lists of 0..n elements of set
Lists(set, n) == UNION {[1..k -> set] : k \in 0..n}

GenChars == {"a", "!", "*", "/", BS, "[", "]", " "}

\* the lines of the one-line files: every text of up to MaxPatLen characters
GenLines == Texts(GenChars, MaxPatLen)

\* the lines of the one-line glob files: a glob token between literal text,
\* with an optional leading "!" or "/" and an optional trailing "/"
GlobLead == {<< >>, <<"!">>, <<"/">>}

GlobPre == {<< >>, <<"a">>, <<"a", "/">>}

Globs == {<<"*">>, <<"?">>, <<"*", "*">>, <<"*", "*", "/">>,
          <<"[", "b", "]">>, <<"[", "!", "b", "]">>, <<"[", "^", "b", "]">>,
          <<"[", "!", "/", "]">>}

GlobPost == {<<"b">>, <<"a", "/", "b">>}

GlobTrail == {<< >>, <<"/">>}

GlobLines ==
    {lead \o pre \o g \o post \o trail :
        lead \in GlobLead, pre \in GlobPre, g \in Globs, post \in GlobPost,
        trail \in GlobTrail}

\* the lines of the files of several rules
RuleLines == {<<"a">>, <<"*">>, <<"!", "a">>, <<"!", "*">>, <<"a", "/">>,
              <<"!", "a", "/">>, <<"[", "!", "/", "]">>}

RuleFiles == Lists(RuleLines, MaxRules)

DirNames == {<<"a">>, <<"a", "b">>}

LeafNames == {<<"a">>, <<"b">>, <<"a", "b">>, <<"a", " ">>}

BaseText == <<"/", "r">>

OtherText == <<"/", "q">>

Query(text, is_str, cwd) == [text |-> text, is_str |-> is_str, cwd |-> cwd]

\* the texts of the paths below the base directory, under up to n
\* directories, without a trailing "/"
PathsBelow(n) ==
    {BaseText \o <<"/">> \o Join(Append(dirs, leaf), "/") :
        dirs \in Lists(DirNames, n), leaf \in LeafNames}

BelowBase == PathsBelow(MaxDirs)

\* the queries of a plain path below the base directory
PlainQueries == {Query(t, TRUE, BaseText) : t \in BelowBase}

\* paths of one or two segments with a trailing "/", the caller's sign of a
\* directory
DirQueries ==
    {Query(BaseText \o <<"/">> \o Join(Append(dirs, leaf), "/") \o <<"/">>, TRUE, BaseText) :
        dirs \in {<< >>} \cup {<<d>> : d \in DirNames}, leaf \in LeafNames}

\* queries a caller can also make: the base directory itself, paths outside
\* it, relative paths (under either working directory), the empty text,
\* unnormalised paths and Path objects
OddQueries ==
    {Query(BaseText, TRUE, BaseText),
     Query(BaseText \o <<"/">>, TRUE, BaseText),
     Query(<<"/">>, TRUE, BaseText),
     Query(OtherText \o <<"/", "a">>, TRUE, BaseText),
     Query(<<"a">>, TRUE, BaseText),
     Query(<<"a">>, TRUE, OtherText),
     Query(<<"a", "/">>, TRUE, BaseText),
     Query(<< >>, TRUE, BaseText),
     Query(BaseText \o <<"/", "a", "/", ".", ".", "/", "b">>, TRUE, BaseText),
     Query(BaseText \o <<"/", ".", "/", "a">>, TRUE, BaseText),
     Query(<<"/">> \o BaseText \o <<"/", "a">>, TRUE, BaseText),
     Query(BaseText \o <<"/", "/", "a">>, TRUE, BaseText),
     Query(BaseText \o <<"/", "a">>, FALSE, BaseText),
     Query(BaseText \o <<"/", "a", "/">>, FALSE, BaseText),
     Query(<<"a">>, FALSE, OtherText)}

Queries == PlainQueries \cup DirQueries \cup OddQueries

\* the queries made of the rule of a one-line file: the plain paths are
\* under up to MaxLineDirs directories
LineQueries ==
    {Query(t, TRUE, BaseText) : t \in PathsBelow(MaxLineDirs)}
        \cup DirQueries \cup OddQueries

\* the queries of a caller that calls the predicate again and again
FewQueries ==
    {Query(BaseText \o <<"/">> \o t, TRUE, BaseText) :
        t \in {<<"a">>, <<"b">>, <<"a", "/">>, <<"a", "/", "b">>}}
    \cup {Query(OtherText \o <<"/", "a">>, TRUE, BaseText),
          Query(<< >>, TRUE, BaseText)}

\* the lines of the one-line files of a character class that begins with
\* "!" or "^", alone or between "a" and "d"
ClassMarks == {"!", "^"}

ClassSets == {<<"b">>, <<"b", "c">>}

ClassAround == {<<<< >>, << >>>>, <<<<"a">>, <<"d">>>>}

ClassLine(pre, mark, set, post) == pre \o <<"[", mark>> \o set \o <<"]">> \o post

ClassLines ==
    {ClassLine(ps[1], mark, set, ps[2]) :
        ps \in ClassAround, mark \in ClassMarks, set \in ClassSets}

\* the characters a class is tried on, and the path segments made of them
ClassChars == {"a", "b", "c", "x", "^", "!"}

ClassNames == {<<ch>> : ch \in ClassChars} \cup {<<"a", ch, "d">> : ch \in ClassChars}
                  \cup {<<"d">>}

\* the queries of the plain paths of these segments, below the base
\* directory or below its directory "a"
ClassQueries ==
    {Query(BaseText \o <<"/">> \o Join(dirs \o <<name>>, "/"), TRUE, BaseText) :
        dirs \in {<< >>, <<<<"a">>>>}, name \in ClassNames}

(***************************************************************************)
(* The state machine                                                       *)
(***************************************************************************)
VARIABLES
    file,      \* the lines of the ignore file
    pc,        \* "start", "ready" (a predicate was returned), "raised"
    rules,     \* the rule list the returned predicate closes over
    call,      \* the last call: of the predicate, or of Rule.match of rule k
    query,     \* the argument of the last call
    result,    \* the outcome of the last call
    base,      \* the base_path the rules are compiled with
    error,     \* the exception the construction raised, "" if none
    seen       \* what a caller has noted: the outcomes of predicate calls

vars == <<file, pc, rules, call, query, result, base, error, seen>>

NoCall == [op |-> "none", k |-> 0]

NoQuery == Query(<< >>, TRUE, << >>)

NoResult == Exc("not called")

InitWith(files) ==
    /\ base = BasePath
    /\ error = ""
    /\ seen = {}
    /\ file \in files
    /\ pc = "start"
    /\ rules = << >>
    /\ call = NoCall
    /\ query = NoQuery
    /\ result = NoResult

\* parse_gitignore(full_path): read the file and return the predicate, or
\* propagate the exception of rule_from_pattern
parse_gitignore ==
    /\ pc = "start"
    /\ \E r \in {ReadRules(file, << >>)} :
        IF r.kind = "raise"
        THEN /\ pc' = "raised"
             /\ error' = r.exc
             /\ UNCHANGED rules
        ELSE /\ pc' = "ready"
             /\ rules' = r.rules
             /\ UNCHANGED error
    /\ UNCHANGED <<file, call, query, result, base, seen>>

\* one call of the returned predicate, with a path of qs
CallPredicate(qs) ==
    /\ pc = "ready"
    /\ \E q \in qs :
        /\ call' = [op |-> "predicate", k |-> 0]
        /\ query' = q
        /\ result' = Predicate(rules, q)
    /\ UNCHANGED <<file, pc, rules, base, error, seen>>

\* CallMatch of a rule that is dropped from the list once it has matched
CallMatchConsuming(qs) ==
    /\ pc = "ready"
    /\ \E k \in 1..Len(rules), q \in qs :
        /\ call' = [op |-> "match", k |-> k]
        /\ query' = q
        /\ result' = match(rules[k], q)
        /\ rules' = IF match(rules[k], q) = Ret(TRUE)
                    THEN Slice(rules, 0, k - 1) \o From(rules, k) ELSE rules
    /\ UNCHANGED <<file, pc, base, error, seen>>

\* one call of Rule.match of a rule of the list, with a path of qs
CallMatch(qs) ==
    /\ pc = "ready"
    /\ \E k \in 1..Len(rules), q \in qs :
        /\ call' = [op |-> "match", k |-> k]
        /\ query' = q
        /\ result' = match(rules[k], q)
    /\ UNCHANGED <<file, pc, rules, base, error, seen>>

\* a caller that calls again and again
PredicateAgain == CallPredicate(FewQueries)

MatchAgain == CallMatch(FewQueries)

\* a caller that makes one call
PredicateOnce == call = NoCall /\ CallPredicate(Queries)

MatchOnce == call = NoCall /\ CallMatch(Queries)

MatchLine == call = NoCall /\ CallMatch(LineQueries)

\* files of several rules, called repeatedly
Init == InitWith(RuleFiles)

Next == parse_gitignore \/ PredicateAgain \/ MatchAgain

Spec == Init /\ [][Next]_vars

\* every one-line file of up to MaxPatLen characters, one call of Rule.match
InitLines == InitWith({<<l>> : l \in GenLines})

NextLines == parse_gitignore \/ MatchLine

SpecLines == InitLines /\ [][NextLines]_vars

\* the one-line glob files, one call of the predicate or of Rule.match
InitGlob == InitWith({<<l>> : l \in GlobLines})

\* the queries of a caller that notes the outcomes
NotedQueries ==
    {Query(BaseText \o <<"/", "a">>, TRUE, BaseText),
     Query(BaseText \o <<"/", "a", "/">>, TRUE, BaseText),
     Query(OtherText \o <<"/", "a">>, TRUE, BaseText)}

\* one call of the returned predicate; the caller notes the path and the
\* outcome
PredicateNoted ==
    /\ pc = "ready"
    /\ \E q \in NotedQueries :
        /\ call' = [op |-> "predicate", k |-> 0]
        /\ query' = q
        /\ result' = Predicate(rules, q)
        /\ seen' = seen \cup {[query |-> q, result |-> Predicate(rules, q)]}
    /\ UNCHANGED <<file, pc, rules, base, error>>

MatchBetween == CallMatch(NotedQueries)

\* files of several rules; calls of the predicate, which are noted, and of
\* Rule.match of the rules, in any order and number
NextNoted == parse_gitignore \/ PredicateNoted \/ MatchBetween

SpecNoted == Init /\ [][NextNoted]_vars

\* the base_path arguments of a direct call of rule_from_pattern: the
\* absolute one, and the relative paths "r" and "."
BasePaths == {BasePath, [root |-> 0, parts |-> <<<<"r">>>>], [root |-> 0, parts |-> << >>]}

\* rule_from_pattern(line, base): the caller keeps the rule, if there is one
CallRuleFromPattern ==
    /\ pc = "start"
    /\ \E r \in {rule_from_pattern(file[1], base)} :
        IF r.kind = "raise"
        THEN /\ pc' = "raised"
             /\ error' = r.exc
             /\ UNCHANGED rules
        ELSE /\ pc' = "ready"
             /\ rules' = IF r.kind = "None" THEN << >> ELSE <<r>>
             /\ UNCHANGED error
    /\ UNCHANGED <<file, call, query, result, base, seen>>

\* the lines that make no rule: the empty and the blank line, comments, and
\* the pattern "/"
SkippedLines ==
    {<< >>, <<" ">>, <<"#">>, <<"#", "a">>, <<"#", "!">>, <<"/">>, <<"!", "/">>}

\* lines that make a rule
KeptLines == {<<"a">>, <<"!", "a">>, <<"*">>}

\* files of up to MaxFileLines lines, of both kinds in any order; one call
\* of the predicate
InitMixed == InitWith(Lists(KeptLines \cup SkippedLines, MaxFileLines))

PredicateMixed == call = NoCall /\ CallPredicate(FewQueries)

NextMixed == parse_gitignore \/ PredicateMixed

SpecMixed == InitMixed /\ [][NextMixed]_vars

\* a rule compiled from one line with any of the base paths, one call of
\* its Rule.match
InitRule ==
    /\ base \in BasePaths
    /\ error = ""
    /\ seen = {}
    /\ file \in {<<l>> : l \in GenLines \cup SkippedLines}
    /\ pc = "start"
    /\ rules = << >>
    /\ call = NoCall
    /\ query = NoQuery
    /\ result = NoResult

MatchRule == call = NoCall /\ CallMatch(FewQueries)

NextRule == CallRuleFromPattern \/ MatchRule

SpecRule == InitRule /\ [][NextRule]_vars

\* the one-line files of a character class, one call of Rule.match
InitClass == InitWith({<<l>> : l \in ClassLines})

MatchClass == call = NoCall /\ CallMatch(ClassQueries)

NextClass == parse_gitignore \/ MatchClass

SpecClass == InitClass /\ [][NextClass]_vars

NextOnce == parse_gitignore \/ PredicateOnce \/ MatchOnce

SpecGlob == InitGlob /\ [][NextOnce]_vars

(***************************************************************************)
(* What the claims speak of                                                *)
(***************************************************************************)
Called(op) == pc = "ready" /\ call.op = op

\* the rule whose match was called
TheRule == rules[call.k]

\* q is the query of a plain path below the base directory
IsPlain(q) == q \in PlainQueries

\* the segments of a plain query, below the base directory
Segments(q) == Split(From(q.text, Len(BaseText) + 1), "/")

\* the plain query of the path with the given segments
PlainQuery(segs) == Query(BaseText \o <<"/">> \o Join(segs, "/"), TRUE, BaseText)

\* rule.match(q) returns True
Matches(rule, q) == match(rule, q) = Ret(TRUE)

\* the position in rs of the last rule that matches q, 0 if there is none
LastMatching(rs, q) ==
    IF \E k \in 1..Len(rs) : Matches(rs[k], q)
    THEN CHOOSE k \in 1..Len(rs) :
             Matches(rs[k], q) /\ \A j \in (k + 1)..Len(rs) : ~Matches(rs[j], q)
    ELSE 0

\* the verdict of the last matching rule: ignored if it is not a negation
Verdict(rs, q) ==
    IF LastMatching(rs, q) = 0 THEN FALSE ELSE ~rs[LastMatching(rs, q)].negation

\* the rule lists that hold the rules of rs in another order
Reorderings(rs) ==
    {[k \in 1..Len(rs) |-> rs[p[k]]] :
        p \in {f \in [1..Len(rs) -> 1..Len(rs)] :
                  \A i, j \in 1..Len(rs) : f[i] = f[j] => i = j}}

\* line is the directory pattern of the literal name: "name/", with an
\* optional leading "!" and an optional leading "/"
IsDirLine(line, name) ==
    line \in {lead \o name \o <<"/">> :
                 lead \in {<< >>, <<"!">>, <<"/">>, <<"!", "/">>}}

\* a call of Rule.match of a directory pattern of some name with a plain
\* path whose last segment is that name
DirRuleOnPlainName ==
    /\ Called("match")
    /\ IsPlain(query)
    /\ \E name \in LeafNames :
        /\ IsDirLine(TheRule.pattern, name)
        /\ Segments(query)[Len(Segments(query))] = name

(***************************************************************************)
(* The claims                                                              *)
(***************************************************************************)

\* C1: with a negation rule in the list, the predicate gives, for every
\* plain path below the base directory, the verdict of the last rule in
\* file order that matches the path: True if it is not a negation, False if
\* it is, False if no rule matches.
C1_LastMatchWins ==
    (Called("predicate") /\ IsPlain(query) /\ HasNegation(rules))
        => result = Ret(Verdict(rules, query))

\* C2: with no negation rule in the list, the predicate is True for a plain
\* path below the base directory iff at least one rule matches it, and the
\* outcome is the same for every permutation of the rules.
C2_AnyRuleAnyOrder ==
    (Called("predicate") /\ IsPlain(query) /\ ~HasNegation(rules))
        => /\ result = Ret(\E k \in 1..Len(rules) : Matches(rules[k], query))
           /\ \A rs \in Reorderings(rules) : Predicate(rs, query) = result

\* C3: a directory-only rule ("build/") never matches a plain path, without
\* a trailing separator, whose last segment has the pattern's name.
C3_DirOnlyNeverMatchesPlain ==
    DirRuleOnPlainName => (TheRule.directory_only /\ result # Ret(TRUE))

\* C3 as amended: on such a path a directory-only rule that is a negation
\* never matches; one that is not a negation matches when it is unanchored
\* or the name is the first segment of the path.
C3_DirOnlyOnPlain ==
    DirRuleOnPlainName =>
        /\ TheRule.directory_only
        /\ TheRule.negation => result = Ret(FALSE)
        /\ ~TheRule.negation =>
               result = Ret(~TheRule.anchored
                            \/ IsDirLine(TheRule.pattern, Segments(query)[1]))

\* C3, witness: Rule.match of a negated directory pattern was called with
\* the plain path of its name
C3_Witness ==
    DirRuleOnPlainName /\ TheRule.negation /\ Len(Segments(query)) = 1

\* C4: rule_from_pattern never raises, whatever the line.
C4_NeverRaises == pc # "raised"

\* C5: the predicate returns a boolean for every query path, absolute or
\* relative, below the base directory or not; it never raises.
C5_PredicateReturns == Called("predicate") => Returned(result)

\* the line of a one-line file without its trailing spaces
StrippedLine == Rstrip(file[1])

\* the rule of that line
StrippedRule == rule_from_pattern(StrippedLine, BasePath)

\* the file is a pattern that compiles to a rule and does not end in a
\* backslash, followed by one or more spaces
SpacesAfterPattern ==
    /\ StrippedLine # file[1]
    /\ StrippedLine # << >>
    /\ StrippedLine[Len(StrippedLine)] # BS
    /\ StrippedRule.kind = "Rule"

\* C6: trailing unescaped spaces are insignificant: the rule of a pattern
\* followed by spaces has the flags of the rule of the pattern alone, and
\* Rule.match gives the same outcome for every path.
C6_TrailingSpacesInsignificant ==
    (pc # "start" /\ SpacesAfterPattern) =>
        /\ pc = "ready"
        /\ Len(rules) = 1
        /\ rules[1].negation = StrippedRule.negation
        /\ rules[1].directory_only = StrippedRule.directory_only
        /\ rules[1].anchored = StrippedRule.anchored
        /\ Called("match") => result = match(StrippedRule, query)

\* the line has no "/" other than a trailing one, and no leading "!"
IsNameLine(line) == line[1] # "!" /\ ~HasInnerSlash(line)

\* the final segment of a plain query
LastSegment(q) == Segments(q)[Len(Segments(q))]

\* Rule.match of the rule of a name line was called with a plain path
NameRuleOnPlain == Called("match") /\ IsPlain(query) /\ IsNameLine(file[1])

\* C7: the rule of a pattern with no "/" (other than a trailing one) and no
\* leading "!" is unanchored, and it matches a path at every depth below the
\* base directory when it matches the path's final segment alone.
C7_NameMatchesAtEveryDepth ==
    NameRuleOnPlain =>
        /\ ~TheRule.anchored
        /\ Matches(TheRule, PlainQuery(<<LastSegment(query)>>)) => result = Ret(TRUE)

\* C7, witness: a wildcard pattern matched a path three or more segments
\* deep whose final segment it matches
C7_Witness ==
    /\ NameRuleOnPlain
    /\ \E k \in 1..Len(file[1]) : file[1][k] = "*"
    /\ Len(Segments(query)) >= 3
    /\ Matches(TheRule, PlainQuery(<<LastSegment(query)>>))
    /\ result = Ret(TRUE)

\* pattern without one leading "/"
DropLeadingSlash(pattern) ==
    IF pattern # << >> /\ pattern[1] = "/" THEN Tail(pattern) ELSE pattern

BeginsWithStars(pattern) ==
    Len(pattern) >= 2 /\ pattern[1] = "*" /\ pattern[2] = "*"

\* the pattern of the line holds a "/" that is not its last character and,
\* one leading "/" dropped, does not begin with "**"
IsPathLine(line) ==
    /\ HasInnerSlash(AfterBang(line))
    /\ ~BeginsWithStars(DropLeadingSlash(AfterBang(line)))

\* the pattern of the line is a literal path that does not end in "/"
IsLiteralLine(line) ==
    /\ \A k \in 1..Len(AfterBang(line)) : AfterBang(line)[k] \in {"a", "/"}
    /\ line[Len(line)] # "/"

\* the offsets of the path of the plain query q, relative to the base
\* directory, at which a match of the regex of rule starts
StartsOf(rule, q) ==
    MatchStarts(ReCompile(rule.regex).node, Join(Segments(q), "/"))

\* the plain queries of the paths that q holds one or more directories deeper
Tails(q) == {PlainQuery(From(Segments(q), k)) : k \in 1..(Len(Segments(q)) - 1)}

\* Rule.match of the rule of a path line was called with a plain path
PathRuleOnPlain == Called("match") /\ IsPlain(query) /\ IsPathLine(file[1])

\* C8: the rule of a pattern with a "/" that is not its sole trailing
\* character, and that does not begin with "**" (one leading "/" dropped),
\* is anchored: a match starts at position 0 of the path relative to the
\* base directory, and a literal pattern that matches a path does not match
\* the same path one or more directories deeper.
C8_AnchoredAtBase ==
    PathRuleOnPlain =>
        /\ TheRule.anchored
        /\ Returned(result) => StartsOf(TheRule, query) \subseteq {0}
        /\ (IsLiteralLine(file[1]) /\ \E t \in Tails(query) : Matches(TheRule, t))
               => result = Ret(FALSE)

\* C8, witness: a literal path pattern did not match a path that holds,
\* below a directory, a path it matches
C8_Witness ==
    /\ PathRuleOnPlain
    /\ IsLiteralLine(file[1])
    /\ \E t \in Tails(query) : Matches(TheRule, t)
    /\ result = Ret(FALSE)

\* the lines of the patterns A/**/B, with an optional leading "!" or "/",
\* for lists A and B of segment names
StarSegmentLines(A, B) ==
    {lead \o Join(A \o <<<<"*", "*">>>> \o B, "/") : lead \in GlobLead}

\* segs is A, then zero or more segments, then B
Between(segs, A, B) ==
    /\ Len(segs) >= Len(A) + Len(B)
    /\ Slice(segs, 0, Len(A)) = A
    /\ From(segs, Len(segs) - Len(B)) = B

\* C9: a "**/" that stands as a full segment matches zero or more whole
\* path segments: the rule of A/**/B matches exactly the plain paths that
\* are A, then zero or more segments, then B (so a/**/b matches a/b, a/x/b
\* and a/x/y/b, and not a/xb or xa/b).
C9_StarsMatchWholeSegments ==
    \A A \in {<< >>, <<<<"a">>>>}, B \in {<<<<"b">>>>, <<<<"a">>, <<"b">>>>} :
        (Called("match") /\ IsPlain(query) /\ file[1] \in StarSegmentLines(A, B))
            => result = Ret(Between(Segments(query), A, B))

\* C9, witness: a/**/b matched a path with two segments between a and b
C9_Witness ==
    /\ Called("match")
    /\ file[1] = <<"a", "/", "*", "*", "/", "b">>
    /\ IsPlain(query)
    /\ Len(Segments(query)) = 4
    /\ result = Ret(TRUE)

\* C10: what a "*", a "?" or a character class matches never holds a path
\* separator: the rule of a pattern without "/" matches a plain path only
\* when it matches the path's final segment alone (a[!b]b does not match
\* a/b).
C10_WildcardsStayInSegment ==
    (/\ Called("match")
     /\ IsPlain(query)
     /\ \A k \in 1..Len(file[1]) : file[1][k] # "/"
     /\ result = Ret(TRUE))
        => Matches(TheRule, PlainQuery(<<LastSegment(query)>>))

\* the text of the path of a query below the base directory, relative to it
RelPath(q) == Join(Segments(q), "/")

\* the characters of the subjects, the separator included
SubjectChars == ClassChars \cup {"d", "/"}

InSet(set, ch) == \E k \in 1..Len(set) : set[k] = ch

\* the characters that are not in set
NotIn(set) == {ch \in SubjectChars : ~InSet(set, ch)}

\* t ends in pre, one character of allowed, post, and these begin at
\* offset k of t: the start of the path or right after a "/"
EndsInAt(t, k, pre, allowed, post) ==
    /\ k >= 0
    /\ k = 0 \/ t[k] = "/"
    /\ Slice(t, k, k + Len(pre)) = pre
    /\ t[k + Len(pre) + 1] \in allowed
    /\ From(t, k + Len(pre) + 1) = post

EndsIn(t, pre, allowed, post) ==
    EndsInAt(t, Len(t) - (Len(pre) + 1 + Len(post)), pre, allowed, post)

\* Rule.match of the rule of the class line was called
ClassRuleCalled(pre, mark, set, post) ==
    Called("match") /\ file[1] = ClassLine(pre, mark, set, post)

\* C11: "!" and "^" both negate a class: [!S] and [^S] match exactly one
\* character that is not in S, so a[!bc]d and a[^bc]d match axd and not abd
\* or acd.
C11_BangAndCaretNegate ==
    \A ps \in ClassAround, mark \in ClassMarks, set \in ClassSets :
        ClassRuleCalled(ps[1], mark, set, ps[2])
            => result = Ret(EndsIn(RelPath(query), ps[1], NotIn(set), ps[2]))

\* C11 as amended: only "!" negates a class: [!S] matches exactly one
\* character that is not in S (any such character, the separator too), and
\* a leading "^" is a literal: [^S] matches exactly one character that is
\* "^" or in S.
C11_BangNegatesCaretIsLiteral ==
    \A ps \in ClassAround, mark \in ClassMarks, set \in ClassSets :
        ClassRuleCalled(ps[1], mark, set, ps[2])
            => result = Ret(EndsIn(RelPath(query), ps[1],
                                   IF mark = "!" THEN NotIn(set)
                                   ELSE {ch \in SubjectChars : ch = "^" \/ InSet(set, ch)},
                                   ps[2]))

\* C11, witness: a[^bc]d matched abd
C11_Witness ==
    /\ ClassRuleCalled(<<"a">>, "^", <<"b", "c">>, <<"d">>)
    /\ Segments(query) = <<<<"a", "b", "d">>>>
    /\ result = Ret(TRUE)

\* the construction was called with a base_path that is not absolute
RelativeBaseCalled == base.root = 0 /\ pc # "start"

\* C12: rule_from_pattern with a base_path that is not absolute raises at
\* once (the ValueError of line 66, whatever the line: blank, comment or
\* one that cannot be parsed), makes no Rule, and so nothing is left to
\* fail later in a match.
C12_RelativeBaseFailsFast ==
    RelativeBaseCalled =>
        /\ pc = "raised"
        /\ error = "ValueError"
        /\ rules = << >>
        /\ call = NoCall

\* C12, witness: a comment line with a relative base_path raised
C12_Witness ==
    /\ RelativeBaseCalled
    /\ file[1] = <<"#", "a">>
    /\ pc = "raised"

\* C13: the predicate is a pure function of the rule list and the path:
\* after any sequence of calls, in any order, the rule list is the one
\* parse_gitignore built, and every call of the predicate for a path has had
\* the same outcome, whatever was called before it.
C13_PredicateIsPure ==
    pc = "ready" =>
        /\ rules = ReadRules(file, << >>).rules
        /\ \A o1, o2 \in seen : o1.query = o2.query => o1.result = o2.result

\* C13, witness: with a list of two rules, one a negation, the predicate
\* has been called for every path, and it has returned both True and False
C13_Witness ==
    /\ Called("predicate")
    /\ Len(rules) = 2
    /\ HasNegation(rules)
    /\ {o.query : o \in seen} = NotedQueries
    /\ \E o1, o2 \in seen : o1.result = Ret(TRUE) /\ o2.result = Ret(FALSE)

\* Rule.match of a rule that is a negation and directory-only was called
NegatedDirRuleCalled ==
    Called("match") /\ TheRule.negation /\ TheRule.directory_only

\* the argument is a string that ends in "/"
EndsInSlash(q) == q.is_str /\ q.text # << >> /\ q.text[Len(q.text)] = "/"

\* the line "!name/" and the path of name, right below the base directory
NegatedDirLine(name) == <<"!">> \o name \o <<"/">>

PathOfName(name) == BaseText \o <<"/">> \o name

\* C14: a rule that is a negation and directory-only ("!build/") matches
\* only an argument that is a string ending in "/": it matches "build/",
\* and it does not match the plain "build", a Path, or a path below the
\* directory.
C14_NegatedDirNeedsSlash ==
    NegatedDirRuleCalled =>
        /\ result = Ret(TRUE) => EndsInSlash(query)
        /\ \A name \in LeafNames :
               (file[1] = NegatedDirLine(name) /\ Fspath(query) = PathOfName(name) \o <<"/">>)
                   => result = Ret(TRUE)
        /\ \A name \in LeafNames :
               (/\ file[1] = NegatedDirLine(name)
                /\ \/ Fspath(query) = PathOfName(name)
                   \/ (IsPlain(query) /\ Segments(query)[1] = name))
                   => result = Ret(FALSE)

\* C14, witness: "!a/" matched the string of the path of a with a trailing "/"
C14_Witness ==
    /\ NegatedDirRuleCalled
    /\ file[1] = NegatedDirLine(<<"a">>)
    /\ query = Query(PathOfName(<<"a">>) \o <<"/">>, TRUE, BaseText)
    /\ result = Ret(TRUE)

\* C14, witness of the other side: "!a/" did not match a path below a
C14_WitnessBelow ==
    /\ NegatedDirRuleCalled
    /\ file[1] = NegatedDirLine(<<"a">>)
    /\ IsPlain(query)
    /\ Len(Segments(query)) >= 2
    /\ Segments(query)[1] = <<"a">>
    /\ result = Ret(FALSE)

\* the lines of the file that are not skipped lines, in file order
LinesLeft == SelectSeq(file, LAMBDA l : l \notin SkippedLines)

\* C15: an empty line, a comment line and a line of the pattern "/" make
\* no rule; the rule list holds the rules of the other lines in file order,
\* so the predicate gives what it gives for the file without these lines,
\* wherever they stand.
C15_SkippedLinesChangeNothing ==
    pc # "start" =>
        /\ pc = "ready"
        /\ rules = [k \in 1..Len(LinesLeft) |-> rule_from_pattern(LinesLeft[k], BasePath)]
        /\ Called("predicate")
               => result = Predicate(ReadRules(LinesLeft, << >>).rules, query)

\* C15, witness: the predicate of a file of two different rules with a
\* skipped line between them was called
C15_Witness ==
    /\ Called("predicate")
    /\ Len(file) = 3
    /\ file[2] \in SkippedLines
    /\ Len(rules) = 2
    /\ rules[1] # rules[2]

====
